---- MODULE Spec2Model ----
(***************************************************************************)
(* Fish Finder: the asynchronous identification pipeline.                  *)
(*                                                                         *)
(*   upload grant -> direct object write -> S3 event -> SQS queue ->       *)
(*   worker (fetch, infer, persist, notify, ack) -> DynamoDB result store  *)
(*   <- client poll loop (mobile pollResults / HomeScreen).                *)
(*                                                                         *)
(* Spec      the server side: queue, worker pool, result store.            *)
(* SpecPoll  the mobile client: handleIdentify and pollResults against     *)
(*           every sequence of server responses.                           *)
(* SpecPipeline / SpecAbandon  the mobile client against the pipeline.     *)
(* SpecWeb   the web client: sign-in, authFetch, startIdentification and   *)
(*           pollForResults against every sequence of server responses.    *)
(* SpecAuth  the mobile app's authentication gate: App and AuthScreen.     *)
(* SpecTimed the queue and the workers with the lease and timeout clocks.  *)
(***************************************************************************)
EXTENDS Integers, Sequences, FiniteSets, TLC

(* ------------------------------ bounds --------------------------------- *)

\* work items (upload grants) in one run
NumItems == 2
\* concurrent worker invocations
NumWorkers == 2
\* largest explicit maxAttempts argument tried besides the default
MaxAttemptsArg == 3
\* identifications the client gets a grant for in one run against the pipeline
MaxIdentifications == 1
\* web client: timer callbacks waiting for their response at the same time
MaxInFlight == 2
\* web client: timer ticks followed beyond POLL_MAX_ATTEMPTS
MaxOverrun == 2
\* handleSubmit invocations of the mobile AuthScreen followed at a time
MaxSubmits == 2
\* seconds of one clock tick of the timed queue
TickSeconds == 30

(* ------------------------- program constants --------------------------- *)

\* redrive_policy.maxReceiveCount of fish_queue
maxReceiveCount == 3
\* default of pollResults' maxAttempts parameter
DefaultMaxAttempts == 20
\* the web client's poll limit
POLL_MAX_ATTEMPTS == 40
\* aws_lambda_function.ml_worker: timeout (seconds)
timeout == 60
\* aws_sqs_queue.fish_queue: visibility_timeout_seconds
visibility_timeout_seconds == 330
\* AuthScreen.handleSubmit: password.length < 8, code.trim().length !== 6
MinPasswordLength == 8
CodeLength == 6

Items == 1..NumItems
Workers == 1..NumWorkers

VARIABLES
    granted,        \* work_item_ids handed out by RequestUploadGrant
    object,         \* object[i]: bytes stored under the item's key ("none" before the write)
    msgState,       \* msgState[i]: the queue message of item i
    receiveCount,   \* receiveCount[i]: the message's delivery_count (ApproximateReceiveCount)
    wpc,            \* wpc[w]: the worker's per-message state machine
    wmsg,           \* wmsg[w]: the message the worker is handling (0 when idle)
    wtoken,         \* wtoken[w]: the lease token (receipt handle) the worker holds
    resultStore,    \* resultStore[key]: the ResultRecord stored under the key
    published,      \* items a notification has been published for
    expiries,       \* history: leases of message i that expired unacknowledged
    abandoned,      \* history: deliveries of message i that ended with no Ack call
    fetched,        \* history: items whose object some worker has fetched
    \* the mobile client
    imageUri,       \* HomeScreen: the selected photo ("null" when none)
    picker,         \* handleTakePhoto / handleChooseFromGallery: "closed", "permission"
                    \*   (permission request pending) or "open" (camera or library shown)
    uploadState,    \* HomeScreen: 'idle' | 'uploading' | 'processing' | 'done' | 'error'
    errorMessage,   \* HomeScreen: the inline error text ("null" when none)
    hpc,            \* handleIdentify: the await it is suspended at ("none" when not running)
    pollCaller,     \* who awaits pollResults: "none", "HomeScreen" or "direct"
    pollPc,         \* pollResults: "idle", "await" (request in flight), "wait" (delay),
                    \*              "resolved" or "rejected"
    maxAttempts,    \* pollResults: the maxAttempts argument
    attempt,        \* pollResults: the loop variable
    pollOutcome,    \* pollResults: how the promise settled
    pollValue,      \* pollResults: the result's payload mark or the Error's message
    requests,       \* history: status requests issued by the current pollResults call
    delays,         \* history: delays started by the current pollResults call
    lastResp,       \* history: the response to the current attempt's request
    imageId,        \* the image_id the client identifies or polls (0 when none)
    \* the web client
    cognitoUser,    \* "null", "unauthenticated" (a CognitoUser with no session) or "signedIn"
    idToken,        \* the JWT kept for API calls ("null" when none)
    signInPending,  \* authenticateUser is in flight
    authSection,    \* the sign-in form: "shown" or "hidden" (the user bar is the opposite)
    visibleSection, \* which of upload / status / results / error is not hidden ("none")
    selectedFile,   \* "null" or "file"
    pollTimer,      \* "null" or "timer": the interval set by pollForResults
    spc,            \* startIdentification: the await it is suspended at ("none" when ended)
    attempts,       \* pollForResults: the closure's attempts counter
    inflight,       \* timer callbacks suspended at their authFetch
    pollPromise,    \* pollForResults' promise: "none", "pending", "resolved", "rejected"
    authorization,  \* history: the token sent with the latest API request ("none" before)
    handled,        \* history: the latest response authFetch or fetch returned
    statusRequests, \* history: status requests sent by the current pollForResults
    displayCalls,   \* history: displayResults calls of the current pollForResults
    \* the mobile app's authentication gate (App.tsx, AuthScreen.tsx)
    authState,      \* App: 'loading' | 'authenticated' | 'unauthenticated'
    booted,         \* history: how getCurrentUser settled ("pending", "user" or "null")
    mode,           \* AuthScreen: 'signin' | 'signup' | 'confirm'
    email,          \* AuthScreen: the email field ("empty", "blank" or "filled")
    password,       \* AuthScreen: the password field, by its length
    code,           \* AuthScreen: the code field, by its trimmed length
    loading,        \* AuthScreen: the submit button shows the spinner
    error,          \* AuthScreen: the inline error ("null" when none)
    submits,        \* handleSubmit invocations: the await each is suspended at, and
                    \*   history of its successful calls, onAuthSuccess call and failure
    \* the clocks of the queue and of the worker's execution environment
    leaseLeft,      \* seconds until the lease on each message expires (0 when not leased)
    budgetLeft,     \* seconds until each running invocation is killed (0 when idle)
    timedOut        \* history: items whose worker was killed at its timeout

serverVars == <<granted, object, msgState, receiveCount, wpc, wmsg, wtoken,
                resultStore, published, expiries, abandoned, fetched>>

clientVars == <<imageUri, picker, uploadState, errorMessage, hpc, pollCaller, pollPc,
                maxAttempts, attempt, pollOutcome, pollValue, requests, delays, lastResp,
                imageId>>

webVars == <<cognitoUser, idToken, signInPending, authSection, visibleSection,
             selectedFile, pollTimer, spc, attempts, inflight, pollPromise,
             authorization, handled, statusRequests, displayCalls>>

\* what the steps of the pipeline and of the mobile client leave alone
appVars == <<authState, booted, mode, email, password, code, loading, error, submits>>

timeVars == <<leaseLeft, budgetLeft, timedOut>>

extVars == <<webVars, appVars, timeVars>>

vars == <<serverVars, clientVars, extVars>>

(* ---------------------------- result store ----------------------------- *)

NoPayload == 0
NotFound == [status |-> "NotFound", payload |-> NoPayload, error_detail |-> ""]

\* variant: one key for the whole table
KeyOfTable(id) == 1

\* hash_key = "ImageId": one item of the table per work_item_id
KeyOf(id) == id

\* variant: an update of the status attribute alone
PutResultStatusOnly(store, id, rec) == [store EXCEPT ![KeyOf(id)].status = rec.status]

\* dynamodb:PutItem, the only write the worker role may do: the whole item is replaced
PutResult(store, id, rec) == [store EXCEPT ![KeyOf(id)] = rec]

\* dynamodb:GetItem, the only access the webapp role has
GetStatus(store, id) == store[KeyOf(id)]

Terminal(rec) == rec.status \in {"completed", "error"}

(* ------------------------------ capability ----------------------------- *)

\* variant: a failure recorded without its detail
ClassifySilent(id, bytes) ==
    IF bytes = "good"
    THEN [status |-> "completed", payload |-> id, error_detail |-> ""]
    ELSE [status |-> "error", payload |-> NoPayload, error_detail |-> ""]

\* the classification capability: a pure function of the object bytes
Classify(id, bytes) ==
    IF bytes = "good"
    THEN [status |-> "completed", payload |-> id, error_detail |-> ""]
    ELSE [status |-> "error", payload |-> NoPayload, error_detail |-> "cannot decode image"]

(* -------------------------------- queue -------------------------------- *)

\* variant: the redrive policy one receive late
ExhaustedLate(count) == count > maxReceiveCount + 1

\* the redrive policy: a receive count above maxReceiveCount moves the message to the DLQ
Exhausted(count) == count > maxReceiveCount

\* a receive counts once (ApproximateReceiveCount)
CountAfterReceive(count) == count + 1

\* variant: the count also goes up when a lease expires
CountAfterExpiryBumped(count) == count + 1

\* the visibility timeout passing leaves the count alone
CountAfterExpiry(count) == count

\* variant: a queue that hands out leased messages too
ReceivableWhileLeased(state) == state \in {"visible", "leased"}

\* only a visible message is handed out: a leased one is hidden until its deadline
Receivable(state) == state = "visible"

\* deliveries of the message to workers so far
Deliveries(i) == IF msgState[i] = "dead" THEN receiveCount[i] - 1 ELSE receiveCount[i]

\* the worker's receipt handle is the most recent one of a message still in the queue
HandleValid(w) ==
    /\ msgState[wmsg[w]] \in {"leased", "visible"}
    /\ wtoken[w] = receiveCount[wmsg[w]]

Holders(i) == {w \in Workers : wpc[w] # "idle" /\ wmsg[w] = i}

(* ------------------------- the status endpoint ------------------------- *)

\* PollResponse.result: absent, or a FishResult
NoResult == "undefined"
ResultFields == {NoResult, "fishA", "fishB"}

\* PollResponse.status, and "ready", the status the API reference documents
Statuses == {"pending", "processing", "completed", "error", "ready"}

NoResponse == [kind |-> "none", ok |-> FALSE, status |-> "pending", result |-> NoResult,
               error |-> "undefined"]

\* fetch() rejects: no HTTP response at all
NetworkFailure == [kind |-> "netfail", ok |-> FALSE, status |-> "pending", result |-> NoResult,
                   error |-> "undefined"]

\* an HTTP response: response.ok, and the PollResponse body {status, result?, error?}
HttpResponses ==
    [kind : {"http"}, ok : {TRUE}, status : Statuses, result : ResultFields,
     error : {"undefined", "", "error_detail"}]
    \cup {[kind |-> "http", ok |-> FALSE, status |-> "pending", result |-> NoResult,
            error |-> "undefined"]}

Responses == HttpResponses \cup {NetworkFailure}

(* -------------------------------- Init --------------------------------- *)

ServerInit ==
    /\ granted = {}
    /\ object = [i \in Items |-> "none"]
    /\ msgState = [i \in Items |-> "none"]
    /\ receiveCount = [i \in Items |-> 0]
    /\ wpc = [w \in Workers |-> "idle"]
    /\ wmsg = [w \in Workers |-> 0]
    /\ wtoken = [w \in Workers |-> 0]
    /\ resultStore = [k \in Items |-> NotFound]
    /\ published = {}
    /\ expiries = [i \in Items |-> 0]
    /\ abandoned = [i \in Items |-> 0]
    /\ fetched = {}

ClientInit ==
    /\ imageUri = "null"
    /\ picker = "closed"
    /\ uploadState = "idle"
    /\ errorMessage = "null"
    /\ hpc = "none"
    /\ pollCaller = "none"
    /\ pollPc = "idle"
    /\ maxAttempts = DefaultMaxAttempts
    /\ attempt = 0
    /\ pollOutcome = "none"
    /\ pollValue = "none"
    /\ requests = 0
    /\ delays = 0
    /\ lastResp = NoResponse
    /\ imageId = 0

\* the page after init() found no stored session: the sign-in form is shown
WebInit ==
    /\ cognitoUser = "null"
    /\ idToken = "null"
    /\ signInPending = FALSE
    /\ authSection = "shown"
    /\ visibleSection = "none"
    /\ selectedFile = "null"
    /\ pollTimer = "null"
    /\ spc = "none"
    /\ attempts = 0
    /\ inflight = 0
    /\ pollPromise = "none"
    /\ authorization = "none"
    /\ handled = "none"
    /\ statusRequests = 0
    /\ displayCalls = 0

Submits == 1..MaxSubmits
NoSubmit == [pc |-> "none", ok |-> {}, called |-> FALSE, failed |-> FALSE]

\* App mounted, getCurrentUser not settled yet; AuthScreen's useState defaults
AppInit ==
    /\ authState = "loading"
    /\ booted = "pending"
    /\ mode = "signin"
    /\ email = "empty"
    /\ password = 0
    /\ code = 0
    /\ loading = FALSE
    /\ error = "null"
    /\ submits = [s \in Submits |-> NoSubmit]

\* no lease, no invocation
TimeInit ==
    /\ leaseLeft = [i \in Items |-> 0]
    /\ budgetLeft = [w \in Workers |-> 0]
    /\ timedOut = {}

Init == ServerInit /\ ClientInit /\ WebInit /\ AppInit /\ TimeInit

(* ------------------------- upload coordinator -------------------------- *)

\* RequestUploadGrant: a fresh id (ids are numbered in the order of issue),
\* no queue message, no record
Grant(i) ==
    /\ i \notin granted
    /\ \A j \in Items : j < i => j \in granted
    /\ granted' = granted \cup {i}

\* variant: the grant also creates a pending record under the new id
RequestUploadGrantWithRecord(i) ==
    /\ Grant(i)
    /\ resultStore' = PutResult(resultStore, i,
                                [status |-> "pending", payload |-> NoPayload,
                                 error_detail |-> ""])
    /\ UNCHANGED clientVars
    /\ UNCHANGED <<object, msgState, receiveCount, wpc, wmsg, wtoken,
                   published, expiries, abandoned, fetched>>

RequestUploadGrant(i) ==
    /\ Grant(i)
    /\ UNCHANGED clientVars
    /\ UNCHANGED <<object, msgState, receiveCount, wpc, wmsg, wtoken, resultStore,
                   published, expiries, abandoned, fetched>>

\* the client's direct object write with the granted credentials
StoreObject(i, bytes) ==
    /\ i \in granted
    /\ object[i] = "none"
    /\ object' = [object EXCEPT ![i] = bytes]

ObjectWrite(i, bytes) ==
    /\ StoreObject(i, bytes)
    /\ UNCHANGED clientVars
    /\ UNCHANGED <<granted, msgState, receiveCount, wpc, wmsg, wtoken, resultStore,
                   published, expiries, abandoned, fetched>>

\* s3:ObjectCreated:* notification: one message on fish_queue
ObjectCreatedEvent(i) ==
    /\ object[i] # "none"
    /\ msgState[i] = "none"
    /\ msgState' = [msgState EXCEPT ![i] = "visible"]
    /\ UNCHANGED clientVars
    /\ UNCHANGED <<granted, object, receiveCount, wpc, wmsg, wtoken, resultStore,
                   published, expiries, abandoned, fetched>>

(* -------------------------------- queue -------------------------------- *)

\* a receive that delivers: the count goes up by one and the worker holds the lease
Deliver(w, i) ==
    /\ wpc[w] = "idle"
    /\ Receivable(msgState[i])
    /\ ~Exhausted(CountAfterReceive(receiveCount[i]))
    /\ receiveCount' = [receiveCount EXCEPT ![i] = CountAfterReceive(@)]
    /\ msgState' = [msgState EXCEPT ![i] = "leased"]
    /\ wpc' = [wpc EXCEPT ![w] = "fetching"]
    /\ wmsg' = [wmsg EXCEPT ![w] = i]
    /\ wtoken' = [wtoken EXCEPT ![w] = CountAfterReceive(receiveCount[i])]
    /\ UNCHANGED clientVars
    /\ UNCHANGED <<granted, object, resultStore, published, expiries, abandoned, fetched>>

\* a receive that would exceed maxReceiveCount: the message goes to the DLQ instead
DeadLetter(i) ==
    /\ Receivable(msgState[i])
    /\ Exhausted(CountAfterReceive(receiveCount[i]))
    /\ receiveCount' = [receiveCount EXCEPT ![i] = CountAfterReceive(@)]
    /\ msgState' = [msgState EXCEPT ![i] = "dead"]
    /\ UNCHANGED clientVars
    /\ UNCHANGED <<granted, object, wpc, wmsg, wtoken, resultStore, published,
                   expiries, abandoned, fetched>>

\* the visibility timeout passes with no delete: the message is receivable again
LeaseExpire(i) ==
    /\ msgState[i] = "leased"
    /\ msgState' = [msgState EXCEPT ![i] = "visible"]
    /\ expiries' = [expiries EXCEPT ![i] = @ + 1]
    /\ receiveCount' = [receiveCount EXCEPT ![i] = CountAfterExpiry(@)]
    /\ UNCHANGED clientVars
    /\ UNCHANGED <<granted, object, wpc, wmsg, wtoken, resultStore,
                   published, abandoned, fetched>>

(* ------------------------------- worker -------------------------------- *)

Release(w) ==
    /\ wpc' = [wpc EXCEPT ![w] = "idle"]
    /\ wmsg' = [wmsg EXCEPT ![w] = 0]
    /\ wtoken' = [wtoken EXCEPT ![w] = 0]

\* Fetching: the object is downloaded
FetchOk(w) ==
    /\ wpc[w] = "fetching"
    /\ wpc' = [wpc EXCEPT ![w] = "inferring"]
    /\ fetched' = fetched \cup {wmsg[w]}
    /\ UNCHANGED clientVars
    /\ UNCHANGED <<granted, object, msgState, receiveCount, wmsg, wtoken, resultStore,
                   published, expiries, abandoned>>

\* variant: a fetch failure treated as permanent: error record, then the acknowledgment
FetchFailTerminal(w) ==
    /\ wpc[w] = "fetching"
    /\ resultStore' = PutResult(resultStore, wmsg[w], Classify(wmsg[w], "corrupt"))
    /\ wpc' = [wpc EXCEPT ![w] = "acking"]
    /\ UNCHANGED clientVars
    /\ UNCHANGED <<granted, object, msgState, receiveCount, wmsg, wtoken, published,
                   expiries, abandoned, fetched>>

\* Fetching fails (TransientInfraError: object missing, storage error, or the worker
\* dying mid-fetch): no write, no acknowledgment
FetchFail(w) ==
    /\ wpc[w] = "fetching"
    /\ Release(w)
    /\ abandoned' = [abandoned EXCEPT ![wmsg[w]] = @ + 1]
    /\ UNCHANGED clientVars
    /\ UNCHANGED <<granted, object, msgState, receiveCount, resultStore, published,
                   expiries, fetched>>

\* Inferring: the capability returns or throws; either way a terminal record is due
Infer(w) ==
    /\ wpc[w] = "inferring"
    /\ wpc' = [wpc EXCEPT ![w] = "persisting"]
    /\ UNCHANGED clientVars
    /\ UNCHANGED <<granted, object, msgState, receiveCount, wmsg, wtoken, resultStore,
                   published, expiries, abandoned, fetched>>

\* variant: the acknowledgment straight after the write
AfterPersistNoNotify(rec) == "acking"

\* after the write: a completed record is notified first, an error record is acknowledged
AfterPersist(rec) == IF rec.status = "completed" THEN "notifying" ELSE "acking"

\* Persisting: the terminal record is written
Persist(w) ==
    /\ wpc[w] = "persisting"
    /\ LET i == wmsg[w]
           rec == Classify(i, object[i])
       IN /\ resultStore' = PutResult(resultStore, i, rec)
          /\ wpc' = [wpc EXCEPT ![w] = AfterPersist(rec)]
    /\ UNCHANGED clientVars
    /\ UNCHANGED <<granted, object, msgState, receiveCount, wmsg, wtoken, published,
                   expiries, abandoned, fetched>>

\* the notification is published (fire and forget)
Notify(w) ==
    /\ wpc[w] = "notifying"
    /\ wpc' = [wpc EXCEPT ![w] = "acking"]
    /\ published' = published \cup {wmsg[w]}
    /\ UNCHANGED clientVars
    /\ UNCHANGED <<granted, object, msgState, receiveCount, wmsg, wtoken, resultStore,
                   expiries, abandoned, fetched>>

\* Acking: sqs:DeleteMessage with the worker's receipt handle
\* variant: deleting the message also deletes the item's record
AckDropsRecord(w) ==
    /\ wpc[w] = "acking"
    /\ msgState' = IF HandleValid(w) THEN [msgState EXCEPT ![wmsg[w]] = "acked"]
                   ELSE msgState
    /\ resultStore' = [resultStore EXCEPT ![KeyOf(wmsg[w])] = NotFound]
    /\ Release(w)
    /\ UNCHANGED clientVars
    /\ UNCHANGED <<granted, object, receiveCount, published, expiries,
                   abandoned, fetched>>

Ack(w) ==
    /\ wpc[w] = "acking"
    /\ msgState' = IF HandleValid(w) THEN [msgState EXCEPT ![wmsg[w]] = "acked"]
                   ELSE msgState
    /\ Release(w)
    /\ UNCHANGED clientVars
    /\ UNCHANGED <<granted, object, receiveCount, resultStore, published, expiries,
                   abandoned, fetched>>

\* the worker dies (crash, or the execution environment's hard timeout) at a later step
Crash(w) ==
    /\ wpc[w] \in {"inferring", "persisting", "notifying", "acking"}
    /\ Release(w)
    /\ abandoned' = [abandoned EXCEPT ![wmsg[w]] = @ + 1]
    /\ UNCHANGED clientVars
    /\ UNCHANGED <<granted, object, msgState, receiveCount, resultStore, published,
                   expiries, fetched>>

(* ---------------------------- mobile client ---------------------------- *)

GrantFailedMsg == "Failed to get upload URL"
UploadFailedMsg == "S3 upload failed"
RequestFailedMsg == "Polling request failed"
NetworkFailedMsg == "Network request failed"
DefaultServerErrorMsg == "Fish identification failed on the server."
TimeoutMsg == "Identification timed out"

\* variant: only the upload counts as loading
IsLoadingUploadingOnly == uploadState = "uploading"

\* isLoading: the picker buttons are disabled and the Identify button is not rendered
IsLoading == uploadState \in {"uploading", "processing"}

\* for (...; attempt <= maxAttempts; ...)
LoopContinues(att, n) == att <= n

\* variant: a delay after every attempt
WaitsAgainAlways(att, n) == TRUE

\* if (attempt < maxAttempts) await delay(POLL_INTERVAL_MS)
WaitsAgain(att, n) == att < n

\* variant: the status alone decides
IsCompletedStatusOnly(resp) == resp.status = "completed"

\* if (data.status === 'completed' && data.result)
IsCompleted(resp) == resp.status = "completed" /\ resp.result # NoResult

\* variant: the default text whatever the server sent
ErrorTextDefaultOnly(resp) == DefaultServerErrorMsg

\* data.error ?? 'Fish identification failed on the server.'
ErrorText(resp) == IF resp.error = "undefined" THEN DefaultServerErrorMsg ELSE resp.error

\* the promise of pollResults settles and the caller's continuation runs:
\* handleIdentify goes on to 'done', or its catch block to 'error'
Settle(pc, outcome, value) ==
    /\ pollPc' = pc
    /\ pollOutcome' = outcome
    /\ pollValue' = value
    /\ IF pollCaller = "HomeScreen"
       THEN /\ hpc' = "none"
            /\ IF pc = "resolved"
               THEN uploadState' = "done" /\ UNCHANGED errorMessage
               ELSE errorMessage' = value /\ uploadState' = "error"
       ELSE UNCHANGED <<hpc, uploadState, errorMessage>>

\* the loop head with the loop variable at att: the next request goes out, or the
\* loop is over and the timeout Error is thrown
LoopHead(att) ==
    /\ attempt' = att
    /\ IF LoopContinues(att, maxAttempts)
       THEN /\ pollPc' = "await"
            /\ requests' = requests + 1
            /\ lastResp' = NoResponse
            /\ pollOutcome' = "none"
            /\ pollValue' = "none"
            /\ UNCHANGED <<hpc, uploadState, errorMessage>>
       ELSE /\ Settle("rejected", "timeout", TimeoutMsg)
            /\ UNCHANGED <<requests, lastResp>>

\* handleTakePhoto / handleChooseFromGallery pressed (the buttons are disabled while
\* isLoading): the permission request is pending
PickPress ==
    /\ pollCaller # "direct"
    /\ ~IsLoading
    /\ picker = "closed"
    /\ picker' = "permission"
    /\ UNCHANGED <<imageUri, uploadState, errorMessage, hpc, pollCaller, pollPc,
                   maxAttempts, attempt, pollOutcome, pollValue, requests, delays,
                   lastResp, imageId>>
    /\ UNCHANGED serverVars

\* the permission request settles: the camera or the library opens, or the alert is shown
PermissionSettles(ok) ==
    /\ picker = "permission"
    /\ picker' = IF ok THEN "open" ELSE "closed"
    /\ UNCHANGED <<imageUri, uploadState, errorMessage, hpc, pollCaller, pollPc,
                   maxAttempts, attempt, pollOutcome, pollValue, requests, delays,
                   lastResp, imageId>>
    /\ UNCHANGED serverVars

\* launchCameraAsync / launchImageLibraryAsync settles: with an asset setImageUri and
\* resetState run, a canceled picker changes nothing
PickerResult(picked) ==
    /\ picker = "open"
    /\ picker' = "closed"
    /\ IF picked
       THEN /\ imageUri' = "uri"
            /\ uploadState' = "idle"
            /\ errorMessage' = "null"
       ELSE UNCHANGED <<imageUri, uploadState, errorMessage>>
    /\ UNCHANGED <<hpc, pollCaller, pollPc, maxAttempts, attempt, pollOutcome, pollValue,
                   requests, delays, lastResp, imageId>>
    /\ UNCHANGED serverVars

\* handleIdentify up to its first await: getUploadUrl is in flight
HandleIdentify ==
    /\ pollCaller # "direct"
    /\ ~IsLoading
    /\ picker # "open"
    /\ hpc = "none"
    /\ imageUri # "null"
    /\ errorMessage' = "null"
    /\ uploadState' = "uploading"
    /\ hpc' = "grant"
    /\ UNCHANGED <<imageUri, picker, pollCaller, pollPc, maxAttempts, attempt, pollOutcome,
                   pollValue, requests, delays, lastResp, imageId>>
    /\ UNCHANGED serverVars

\* variant: the failure of getUploadUrl is swallowed and the upload goes out
GetUploadUrlSettlesCarriesOn(ok) ==
    /\ hpc = "grant"
    /\ hpc' = "upload"
    /\ UNCHANGED <<uploadState, errorMessage>>
    /\ UNCHANGED <<imageUri, picker, pollCaller, pollPc, maxAttempts, attempt, pollOutcome,
                   pollValue, requests, delays, lastResp>>

\* getUploadUrl settles: uploadToS3 goes out, or the catch block runs
GetUploadUrlSettles(ok) ==
    /\ hpc = "grant"
    /\ IF ok
       THEN hpc' = "upload" /\ UNCHANGED <<uploadState, errorMessage>>
       ELSE hpc' = "none" /\ errorMessage' = GrantFailedMsg /\ uploadState' = "error"
    /\ UNCHANGED <<imageUri, picker, pollCaller, pollPc, maxAttempts, attempt, pollOutcome,
                   pollValue, requests, delays, lastResp>>

GetUploadUrlDone(ok) ==
    /\ GetUploadUrlSettles(ok)
    /\ UNCHANGED imageId
    /\ UNCHANGED serverVars

\* variant: the catch block resets the screen instead of showing the error
UploadToS3SettlesResets(ok) ==
    /\ hpc = "upload"
    /\ IF ok
       THEN /\ pollCaller' = "HomeScreen"
            /\ maxAttempts' = DefaultMaxAttempts
            /\ delays' = 0
            /\ requests' = 1
            /\ hpc' = "poll"
            /\ uploadState' = "processing"
            /\ attempt' = 1
            /\ pollPc' = "await"
            /\ lastResp' = NoResponse
            /\ pollOutcome' = "none"
            /\ pollValue' = "none"
            /\ UNCHANGED errorMessage
       ELSE /\ hpc' = "none"
            /\ errorMessage' = "null"
            /\ uploadState' = "idle"
            /\ UNCHANGED <<pollCaller, pollPc, maxAttempts, attempt, pollOutcome, pollValue,
                           requests, delays, lastResp>>
    /\ UNCHANGED <<imageUri, picker, imageId>>

\* uploadToS3 settles: 'processing' and pollResults(image_id), or the catch block runs
UploadToS3Settles(ok) ==
    /\ hpc = "upload"
    /\ IF ok
       THEN /\ pollCaller' = "HomeScreen"
            /\ maxAttempts' = DefaultMaxAttempts
            /\ delays' = 0
            /\ requests' = 1
            /\ hpc' = "poll"
            /\ uploadState' = "processing"
            /\ attempt' = 1
            /\ pollPc' = "await"
            /\ lastResp' = NoResponse
            /\ pollOutcome' = "none"
            /\ pollValue' = "none"
            /\ UNCHANGED errorMessage
       ELSE /\ hpc' = "none"
            /\ errorMessage' = UploadFailedMsg
            /\ uploadState' = "error"
            /\ UNCHANGED <<pollCaller, pollPc, maxAttempts, attempt, pollOutcome, pollValue,
                           requests, delays, lastResp>>
    /\ UNCHANGED <<imageUri, picker, imageId>>

UploadToS3Done(ok) ==
    /\ UploadToS3Settles(ok)
    /\ UNCHANGED serverVars

\* pollResults(image_id, n) up to its first await, called by something other than
\* handleIdentify
PollResultsFrame(n) ==
    /\ pollCaller = "none"
    /\ hpc = "none"
    /\ pollCaller' = "direct"
    /\ maxAttempts' = n
    /\ delays' = 0
    /\ requests' = IF LoopContinues(1, n) THEN 1 ELSE 0
    /\ attempt' = 1
    /\ lastResp' = NoResponse
    /\ IF LoopContinues(1, n)
       THEN pollPc' = "await" /\ pollOutcome' = "none" /\ pollValue' = "none"
       ELSE pollPc' = "rejected" /\ pollOutcome' = "timeout" /\ pollValue' = TimeoutMsg
    /\ UNCHANGED <<imageUri, picker, uploadState, errorMessage, hpc>>

\* pollResults(image_id, n) called on its own while HomeScreen is idle
PollResultsStarts(n) ==
    /\ uploadState = "idle"
    /\ PollResultsFrame(n)

PollResultsCall(n) ==
    /\ PollResultsStarts(n)
    /\ UNCHANGED imageId
    /\ UNCHANGED serverVars

\* one iteration of the loop from the response on
PollSettles(resp) ==
    /\ pollPc = "await"
    /\ lastResp' = resp
    /\ UNCHANGED <<imageUri, picker, pollCaller, maxAttempts, imageId>>
    /\ IF resp.kind = "netfail"
       THEN /\ Settle("rejected", "requestFailed", NetworkFailedMsg)
            /\ UNCHANGED <<attempt, requests, delays>>
       ELSE IF ~resp.ok
       THEN /\ Settle("rejected", "requestFailed", RequestFailedMsg)
            /\ UNCHANGED <<attempt, requests, delays>>
       ELSE IF IsCompleted(resp)
       THEN /\ Settle("resolved", "result", resp.result)
            /\ UNCHANGED <<attempt, requests, delays>>
       ELSE IF resp.status = "error"
       THEN /\ Settle("rejected", "serverError", ErrorText(resp))
            /\ UNCHANGED <<attempt, requests, delays>>
       ELSE IF WaitsAgain(attempt, maxAttempts)
       THEN /\ pollPc' = "wait"
            /\ delays' = delays + 1
            /\ UNCHANGED <<attempt, requests, pollOutcome, pollValue, hpc, uploadState,
                           errorMessage>>
       ELSE /\ attempt' = attempt + 1
            /\ Settle("rejected", "timeout", TimeoutMsg)
            /\ UNCHANGED <<requests, delays>>

PollResponse(resp) ==
    /\ PollSettles(resp)
    /\ UNCHANGED serverVars

\* the delay is over: attempt++ and the loop head
PollDelayDone ==
    /\ pollPc = "wait"
    /\ LoopHead(attempt + 1)
    /\ UNCHANGED <<imageUri, picker, pollCaller, maxAttempts, delays, imageId>>
    /\ UNCHANGED serverVars

(* -------------------------------- Next --------------------------------- *)

Next ==
    \/ \E i \in Items : RequestUploadGrant(i) /\ UNCHANGED extVars
    \/ \E i \in Items, b \in {"good", "corrupt"} : ObjectWrite(i, b) /\ UNCHANGED extVars
    \/ \E i \in Items : ObjectCreatedEvent(i) /\ UNCHANGED extVars
    \/ \E w \in Workers, i \in Items : Deliver(w, i) /\ UNCHANGED extVars
    \/ \E i \in Items : DeadLetter(i) /\ UNCHANGED extVars
    \/ \E i \in Items : LeaseExpire(i) /\ UNCHANGED extVars
    \/ \E w \in Workers : FetchOk(w) /\ UNCHANGED extVars
    \/ \E w \in Workers : FetchFail(w) /\ UNCHANGED extVars
    \/ \E w \in Workers : Infer(w) /\ UNCHANGED extVars
    \/ \E w \in Workers : Persist(w) /\ UNCHANGED extVars
    \/ \E w \in Workers : Notify(w) /\ UNCHANGED extVars
    \/ \E w \in Workers : Ack(w) /\ UNCHANGED extVars
    \/ \E w \in Workers : Crash(w) /\ UNCHANGED extVars

Spec == Init /\ [][Next]_vars

NextPoll ==
    \/ PickPress /\ UNCHANGED extVars
    \/ \E ok \in BOOLEAN : PermissionSettles(ok) /\ UNCHANGED extVars
    \/ \E picked \in BOOLEAN : PickerResult(picked) /\ UNCHANGED extVars
    \/ HandleIdentify /\ UNCHANGED extVars
    \/ \E ok \in BOOLEAN : GetUploadUrlDone(ok) /\ UNCHANGED extVars
    \/ \E ok \in BOOLEAN : UploadToS3Done(ok) /\ UNCHANGED extVars
    \/ \E n \in (0..MaxAttemptsArg) \cup {DefaultMaxAttempts} : PollResultsCall(n) /\ UNCHANGED extVars
    \/ \E resp \in Responses : PollResponse(resp) /\ UNCHANGED extVars
    \/ PollDelayDone /\ UNCHANGED extVars

SpecPoll == Init /\ [][NextPoll]_vars

(* ---------------- the client against the pipeline (SpecPipeline) ------- *)

\* variant: a missing item answered with 404
StatusEndpointNotFound404(rec) ==
    IF rec = NotFound
    THEN [kind |-> "http", ok |-> FALSE, status |-> "pending", result |-> NoResult,
          error |-> "undefined"]
    ELSE [kind |-> "http", ok |-> TRUE, status |-> "ready", result |-> NoResult,
          error |-> "undefined"]

\* GET /api/results/<image_id>: {"status": "pending"} while the table has no item,
\* {"status": "ready", species, ...} once it has (the fields are top-level: the body
\* has no "result" member)
StatusEndpoint(rec) ==
    IF rec = NotFound
    THEN [kind |-> "http", ok |-> TRUE, status |-> "pending", result |-> NoResult,
          error |-> "undefined"]
    ELSE [kind |-> "http", ok |-> TRUE, status |-> "ready", result |-> NoResult,
          error |-> "undefined"]

\* the user chooses the photo to identify; replacing a chosen photo is followed in
\* SpecPoll
FirstPick ==
    /\ imageUri = "null"
    /\ PickPress

\* handleIdentify: getUploadUrl resolves with a fresh image_id
IdentifyGrant(i) ==
    /\ Cardinality(granted) < MaxIdentifications
    /\ Grant(i)
    /\ GetUploadUrlSettles(TRUE)
    /\ imageId' = i
    /\ UNCHANGED <<object, msgState, receiveCount, wpc, wmsg, wtoken, resultStore,
                   published, expiries, abandoned, fetched>>

\* handleIdentify: uploadToS3 resolves, the photo is in the bucket
IdentifyUpload ==
    /\ StoreObject(imageId, "good")
    /\ UploadToS3Settles(TRUE)
    /\ UNCHANGED <<granted, msgState, receiveCount, wpc, wmsg, wtoken, resultStore,
                   published, expiries, abandoned, fetched>>

\* pollResults(image_id) called on its own for an id handed out earlier, with no
\* identification in flight
DirectPoll(i) ==
    /\ i \in granted
    /\ ~IsLoading
    /\ PollResultsFrame(DefaultMaxAttempts)
    /\ imageId' = i
    /\ UNCHANGED serverVars

\* variant: an endpoint that removes the item it has served
PollAnswerConsuming ==
    /\ pollPc = "await"
    /\ imageId \in Items
    /\ PollSettles(StatusEndpoint(GetStatus(resultStore, imageId)))
    /\ resultStore' = [resultStore EXCEPT ![KeyOf(imageId)] = NotFound]
    /\ UNCHANGED <<granted, object, msgState, receiveCount, wpc, wmsg, wtoken,
                   published, expiries, abandoned, fetched>>

\* the status request is answered from the table as it is now
PollAnswer ==
    /\ pollPc = "await"
    /\ imageId \in Items
    /\ PollResponse(StatusEndpoint(GetStatus(resultStore, imageId)))

NextPipeline ==
    \/ FirstPick /\ UNCHANGED extVars
    \/ \E ok \in BOOLEAN : PermissionSettles(ok) /\ UNCHANGED extVars
    \/ \E picked \in BOOLEAN : PickerResult(picked) /\ UNCHANGED extVars
    \/ HandleIdentify /\ UNCHANGED extVars
    \/ \E i \in Items : IdentifyGrant(i) /\ UNCHANGED extVars
    \/ GetUploadUrlDone(FALSE) /\ UNCHANGED extVars
    \/ IdentifyUpload /\ UNCHANGED extVars
    \/ UploadToS3Done(FALSE) /\ UNCHANGED extVars
    \/ \E i \in Items : DirectPoll(i) /\ UNCHANGED extVars
    \/ PollAnswer /\ UNCHANGED extVars
    \/ PollDelayDone /\ UNCHANGED extVars
    \/ \E i \in Items : ObjectCreatedEvent(i) /\ UNCHANGED extVars
    \/ \E w \in Workers, i \in Items : Deliver(w, i) /\ UNCHANGED extVars
    \/ \E i \in Items : DeadLetter(i) /\ UNCHANGED extVars
    \/ \E i \in Items : LeaseExpire(i) /\ UNCHANGED extVars
    \/ \E w \in Workers : FetchOk(w) /\ UNCHANGED extVars
    \/ \E w \in Workers : FetchFail(w) /\ UNCHANGED extVars
    \/ \E w \in Workers : Infer(w) /\ UNCHANGED extVars
    \/ \E w \in Workers : Persist(w) /\ UNCHANGED extVars
    \/ \E w \in Workers : Notify(w) /\ UNCHANGED extVars
    \/ \E w \in Workers : Ack(w) /\ UNCHANGED extVars
    \/ \E w \in Workers : Crash(w) /\ UNCHANGED extVars

\* the queue, a running worker, the status endpoint and the delay timer all make
\* progress; failures, crashes and the user's actions are not forced
ServerFairness ==
    /\ \A i \in Items :
           /\ WF_vars(ObjectCreatedEvent(i) /\ UNCHANGED extVars)
           /\ WF_vars(\E w \in Workers : Deliver(w, i) /\ UNCHANGED extVars)
           /\ WF_vars(DeadLetter(i) /\ UNCHANGED extVars)
           /\ WF_vars(LeaseExpire(i) /\ UNCHANGED extVars)
    /\ \A w \in Workers :
           /\ WF_vars(FetchOk(w) /\ UNCHANGED extVars)
           /\ WF_vars(Infer(w) /\ UNCHANGED extVars)
           /\ WF_vars(Persist(w) /\ UNCHANGED extVars)
           /\ WF_vars(Notify(w) /\ UNCHANGED extVars)
           /\ WF_vars(Ack(w) /\ UNCHANGED extVars)

PipelineFairness ==
    /\ WF_vars(PollAnswer /\ UNCHANGED extVars)
    /\ WF_vars(PollDelayDone /\ UNCHANGED extVars)
    /\ ServerFairness

SpecPipeline == Init /\ [][NextPipeline]_vars /\ PipelineFairness

\* the same steps with nothing forced on the client: it may stop polling at any point
SpecAbandon == Init /\ [][NextPipeline]_vars /\ ServerFairness

(* ------------------------------ web client ----------------------------- *)

\* what the await of an authFetch or fetch can yield: a network failure, a 401, another
\* non-ok answer, or 200 with a body whose status is pending, ready or error
GrantResponses == {"network-failure", "401", "500", "ok"}
StatusResponses == {"network-failure", "401", "500", "pending", "ready", "error"}

\* getIdToken: null without a CognitoUser or without a valid session
GetIdToken(user, valid) == IF user = "signedIn" /\ valid THEN "jwt" ELSE "null"

\* variant: the request goes out whatever getIdToken returned
AuthFetchSendsAlways(token) == TRUE

\* authFetch: if (!token) { logoutBtn.click(); throw }
AuthFetchSends(token) == token # "null"

\* showState(state): exactly the named section is not hidden
ShowState(state) == visibleSection' = state

\* the logoutBtn click handler, but for its hiding of the four sections
SignedOut ==
    /\ cognitoUser' = "null"
    /\ idToken' = "null"
    /\ authSection' = "shown"

\* the logoutBtn click handler
Logout ==
    /\ SignedOut
    /\ visibleSection' = "none"

\* no startIdentification is running and no timer callback of an earlier one is
\* suspended: none was started, the last one has ended, or its pollForResults promise
\* can no longer settle (timer cleared, no callback suspended)
FlowIdle ==
    /\ inflight = 0
    /\ \/ spc = "none"
       \/ spc = "poll" /\ pollTimer = "null"

\* signinForm submit: a new CognitoUser, authenticateUser in flight
SignInSubmit ==
    /\ authSection = "shown"
    /\ ~signInPending
    /\ cognitoUser' = "unauthenticated"
    /\ signInPending' = TRUE
    /\ UNCHANGED <<idToken, authSection, visibleSection, selectedFile, pollTimer, spc,
                   attempts, inflight, pollPromise, authorization, handled,
                   statusRequests, displayCalls>>

\* authenticateUser settles: onSuccess (idToken, onAuthSuccess) or onFailure
SignInSettles(ok) ==
    /\ signInPending
    /\ signInPending' = FALSE
    /\ IF ok
       THEN /\ idToken' = "jwt"
            /\ cognitoUser' = IF cognitoUser = "unauthenticated" THEN "signedIn"
                              ELSE cognitoUser
            /\ authSection' = "hidden"
            /\ ShowState("upload")
       ELSE UNCHANGED <<idToken, cognitoUser, authSection, visibleSection>>
    /\ UNCHANGED <<selectedFile, pollTimer, spc, attempts, inflight, pollPromise,
                   authorization, handled, statusRequests, displayCalls>>

\* the user clicks logoutBtn (in the user bar)
LogoutClick ==
    /\ authSection = "hidden"
    /\ Logout
    /\ UNCHANGED <<signInPending, selectedFile, pollTimer, spc, attempts, inflight,
                   pollPromise, authorization, handled, statusRequests, displayCalls>>

\* handleFileSelected (the drop zone is hidden while a preview is shown)
FileSelected ==
    /\ visibleSection = "upload"
    /\ selectedFile = "null"
    /\ selectedFile' = "file"
    /\ UNCHANGED <<cognitoUser, idToken, signInPending, authSection, visibleSection,
                   pollTimer, spc, attempts, inflight, pollPromise, authorization,
                   handled, statusRequests, displayCalls>>

\* resetToUpload, from cancelBtn (preview), newUploadBtn (results) or retryBtn (error)
ResetToUpload ==
    /\ \/ visibleSection = "upload" /\ selectedFile # "null"
       \/ visibleSection \in {"results", "error"}
    /\ selectedFile' = "null"
    /\ ShowState("upload")
    /\ pollTimer' = "null"
    /\ UNCHANGED <<cognitoUser, idToken, signInPending, authSection, spc, attempts,
                   inflight, pollPromise, authorization, handled, statusRequests,
                   displayCalls>>

\* startIdentification up to its first fetch: showState("status"), then authFetch either
\* sends the upload-url request or signs out and throws into the catch block (showError)
StartIdentification(valid) ==
    /\ visibleSection = "upload"
    /\ selectedFile # "null"
    /\ FlowIdle
    /\ LET token == GetIdToken(cognitoUser, valid)
       IN IF AuthFetchSends(token)
          THEN /\ ShowState("status")
               /\ spc' = "grant"
               /\ authorization' = token
               /\ idToken' = IF token # "null" THEN token ELSE idToken
               /\ UNCHANGED <<cognitoUser, authSection>>
          ELSE /\ SignedOut
               /\ ShowState("error")
               /\ spc' = "none"
               /\ UNCHANGED authorization
    /\ UNCHANGED <<signInPending, selectedFile, pollTimer, attempts, inflight,
                   pollPromise, handled, statusRequests, displayCalls>>

\* the upload-url request settles: the S3 POST goes out, or authFetch signs out on a
\* 401, or the catch block shows the error
UploadUrlSettles(resp) ==
    /\ spc = "grant"
    /\ handled' = resp
    /\ IF resp = "ok"
       THEN /\ spc' = "upload"
            /\ UNCHANGED <<cognitoUser, idToken, authSection, visibleSection>>
       ELSE /\ spc' = "none"
            /\ ShowState("error")
            /\ IF resp = "401" THEN SignedOut
               ELSE UNCHANGED <<cognitoUser, idToken, authSection>>
    /\ UNCHANGED <<signInPending, selectedFile, pollTimer, attempts, inflight,
                   pollPromise, authorization, statusRequests, displayCalls>>

\* the S3 POST settles: pollForResults sets its interval, or the catch block shows the
\* error
S3PostSettles(ok) ==
    /\ spc = "upload"
    /\ IF ok
       THEN /\ spc' = "poll"
            /\ attempts' = 0
            /\ pollTimer' = "timer"
            /\ pollPromise' = "pending"
            /\ statusRequests' = 0
            /\ displayCalls' = 0
            /\ UNCHANGED visibleSection
       ELSE /\ spc' = "none"
            /\ ShowState("error")
            /\ UNCHANGED <<attempts, pollTimer, pollPromise, statusRequests,
                           displayCalls>>
    /\ UNCHANGED <<cognitoUser, idToken, signInPending, authSection, selectedFile,
                   inflight, authorization, handled>>

\* reject(err) of pollForResults: the first settlement ends startIdentification in its
\* catch block (showError), a later one does nothing; `shown` is the section left by
\* what ran before the reject
Reject(shown) ==
    IF pollPromise = "pending"
    THEN pollPromise' = "rejected" /\ spc' = "none" /\ ShowState("error")
    ELSE UNCHANGED <<pollPromise, spc>> /\ visibleSection' = shown

\* resolve() of pollForResults
Resolve ==
    IF pollPromise = "pending"
    THEN pollPromise' = "resolved" /\ spc' = "none"
    ELSE UNCHANGED <<pollPromise, spc>>

\* a tick of the interval: attempts++, then authFetch either sends the status request
\* or signs out and throws into the callback's catch block (clearInterval, reject)
PollTick(valid) ==
    /\ pollTimer = "timer"
    /\ attempts < POLL_MAX_ATTEMPTS + MaxOverrun
    /\ inflight < MaxInFlight
    /\ attempts' = attempts + 1
    /\ LET token == GetIdToken(cognitoUser, valid)
       IN IF AuthFetchSends(token)
          THEN /\ inflight' = inflight + 1
               /\ statusRequests' = statusRequests + 1
               /\ authorization' = token
               /\ idToken' = IF token # "null" THEN token ELSE idToken
               /\ UNCHANGED <<cognitoUser, authSection, visibleSection, pollTimer,
                              pollPromise, spc>>
          ELSE /\ SignedOut
               /\ pollTimer' = "null"
               /\ Reject("none")
               /\ UNCHANGED <<inflight, statusRequests, authorization>>
    /\ UNCHANGED <<signInPending, selectedFile, handled, displayCalls>>

\* a suspended timer callback gets its response and runs to its end
PollCallback(resp) ==
    /\ inflight > 0
    /\ inflight' = inflight - 1
    /\ handled' = resp
    /\ IF resp \in {"network-failure", "401", "500"}
       THEN /\ pollTimer' = "null"
            /\ IF resp = "401" THEN SignedOut /\ Reject("none")
               ELSE Reject(visibleSection) /\ UNCHANGED <<cognitoUser, idToken, authSection>>
            /\ UNCHANGED displayCalls
       ELSE IF resp = "ready"
       THEN /\ pollTimer' = "null"
            /\ displayCalls' = displayCalls + 1
            /\ ShowState("results")
            /\ Resolve
            /\ UNCHANGED <<cognitoUser, idToken, authSection>>
       ELSE IF attempts >= POLL_MAX_ATTEMPTS
       THEN /\ pollTimer' = "null"
            /\ Reject(visibleSection)
            /\ UNCHANGED <<cognitoUser, idToken, authSection, displayCalls>>
       ELSE UNCHANGED <<pollTimer, pollPromise, spc, visibleSection, cognitoUser,
                        idToken, authSection, displayCalls>>
    /\ UNCHANGED <<signInPending, selectedFile, attempts, authorization, statusRequests>>

notWebVars == <<serverVars, clientVars, appVars, timeVars>>

NextWeb ==
    \/ SignInSubmit /\ UNCHANGED notWebVars
    \/ \E ok \in BOOLEAN : SignInSettles(ok) /\ UNCHANGED notWebVars
    \/ LogoutClick /\ UNCHANGED notWebVars
    \/ FileSelected /\ UNCHANGED notWebVars
    \/ ResetToUpload /\ UNCHANGED notWebVars
    \/ \E valid \in BOOLEAN : StartIdentification(valid) /\ UNCHANGED notWebVars
    \/ \E resp \in GrantResponses : UploadUrlSettles(resp) /\ UNCHANGED notWebVars
    \/ \E ok \in BOOLEAN : S3PostSettles(ok) /\ UNCHANGED notWebVars
    \/ \E valid \in BOOLEAN : PollTick(valid) /\ UNCHANGED notWebVars
    \/ \E resp \in StatusResponses : PollCallback(resp) /\ UNCHANGED notWebVars

SpecWeb == Init /\ [][NextWeb]_vars

(* ------------------- mobile authentication gate ------------------------ *)

EmailValues == {"empty", "blank", "filled"}
PasswordLengths == {0, MinPasswordLength - 1, MinPasswordLength}
CodeLengths == {0, CodeLength - 1, CodeLength}

EmailMsg == "Please enter your email address."
PasswordMsg == "Password must be at least 8 characters."
CodeMsg == "Please enter the 6-digit verification code."
AuthErrorMsg == "err.message"

\* email.trim(): a field of blanks only is empty
Trim(e) == IF e = "blank" THEN "empty" ELSE e

\* variant: only the email is validated
ValidateEmailOnly(m, e, p, c) == IF Trim(e) = "empty" THEN EmailMsg ELSE "ok"

\* handleSubmit's client-side validation: the message of the first failed check, or "ok"
Validate(m, e, p, c) ==
    IF Trim(e) = "empty" THEN EmailMsg
    ELSE IF m # "confirm" /\ p < MinPasswordLength THEN PasswordMsg
    ELSE IF m = "confirm" /\ c # CodeLength THEN CodeMsg
    ELSE "ok"

\* the first auth call handleSubmit awaits in mode m
FirstCall(m) == IF m = "signin" THEN "signIn"
                ELSE IF m = "signup" THEN "signUp" ELSE "confirmSignUp"

\* variant: whatever getCurrentUser returns, the sign-in screen is shown
GetCurrentUserSettlesIgnoresUser(user) ==
    /\ authState = "loading"
    /\ booted = "pending"
    /\ booted' = IF user THEN "user" ELSE "null"
    /\ authState' = "unauthenticated"
    /\ UNCHANGED <<mode, email, password, code, loading, error, submits>>

\* App's mount effect: getCurrentUser settles (it catches its errors and returns null)
GetCurrentUserSettles(user) ==
    /\ authState = "loading"
    /\ booted = "pending"
    /\ booted' = IF user THEN "user" ELSE "null"
    /\ authState' = IF user THEN "authenticated" ELSE "unauthenticated"
    /\ UNCHANGED <<mode, email, password, code, loading, error, submits>>

\* AuthScreen is rendered only while authState is 'unauthenticated'
AuthScreenShown == authState = "unauthenticated"

\* typing in the email field (not editable in confirm mode); clearError()
SetEmail(v) ==
    /\ AuthScreenShown
    /\ mode # "confirm"
    /\ email' = v
    /\ error' = "null"
    /\ UNCHANGED <<authState, booted, mode, password, code, loading, submits>>

\* typing in the password field (not rendered in confirm mode); clearError()
SetPassword(v) ==
    /\ AuthScreenShown
    /\ mode # "confirm"
    /\ password' = v
    /\ error' = "null"
    /\ UNCHANGED <<authState, booted, mode, email, code, loading, submits>>

\* typing in the code field (rendered in confirm mode only); clearError()
SetCode(v) ==
    /\ AuthScreenShown
    /\ mode = "confirm"
    /\ code' = v
    /\ error' = "null"
    /\ UNCHANGED <<authState, booted, mode, email, password, loading, submits>>

\* the toggle link, disabled while loading
HandleToggle ==
    /\ AuthScreenShown
    /\ ~loading
    /\ error' = "null"
    /\ code' = 0
    /\ mode' = IF mode = "signin" THEN "signup" ELSE "signin"
    /\ UNCHANGED <<authState, booted, email, password, loading, submits>>

\* handleSubmit up to its first await.  The submit button is disabled while loading;
\* the keyboard's submit key of the password or code field (onSubmitEditing) is not,
\* so a second invocation can start while the first is suspended.
HandleSubmit(s) ==
    /\ AuthScreenShown
    /\ submits[s].pc = "none"
    /\ LET v == Validate(mode, email, password, code) IN
       IF v # "ok"
       THEN /\ error' = v
            /\ submits' = [submits EXCEPT ![s] = NoSubmit]
            /\ UNCHANGED loading
       ELSE /\ error' = "null"
            /\ loading' = TRUE
            /\ submits' = [submits EXCEPT ![s] = [NoSubmit EXCEPT !.pc = FirstCall(mode)]]
    /\ UNCHANGED <<authState, booted, mode, email, password, code>>

\* the onAuthSuccess prop: () => setAuthState('authenticated')
OnAuthSuccess == authState' = "authenticated"

\* the auth call invocation s awaits settles; handleSubmit runs on to its next await or,
\* through catch and finally, to its end
AuthCallSettles(s, ok) ==
    LET pc == submits[s].pc
        call == IF pc = "confirmSignIn" THEN "signIn" ELSE pc
        done == [submits[s] EXCEPT !.pc = "none", !.ok = @ \cup {call}]
    IN
    /\ pc # "none"
    /\ IF ~ok
       THEN /\ error' = AuthErrorMsg
            /\ loading' = FALSE
            /\ submits' = [submits EXCEPT ![s] = [@ EXCEPT !.pc = "none", !.failed = TRUE]]
            /\ UNCHANGED <<authState, mode>>
       ELSE IF pc \in {"signIn", "confirmSignIn"}
       THEN /\ OnAuthSuccess
            /\ loading' = FALSE
            /\ submits' = [submits EXCEPT ![s] = [done EXCEPT !.called = TRUE]]
            /\ UNCHANGED <<error, mode>>
       ELSE IF pc = "signUp"
       THEN /\ mode' = "confirm"
            /\ loading' = FALSE
            /\ submits' = [submits EXCEPT ![s] = done]
            /\ UNCHANGED <<error, authState>>
       ELSE /\ submits' = [submits EXCEPT ![s] = [done EXCEPT !.pc = "confirmSignIn"]]
            /\ UNCHANGED <<error, authState, mode, loading>>
    /\ UNCHANGED <<booted, email, password, code>>

notAppVars == <<serverVars, clientVars, webVars, timeVars>>

NextAuth ==
    \/ \E user \in BOOLEAN : GetCurrentUserSettles(user) /\ UNCHANGED notAppVars
    \/ \E v \in EmailValues : SetEmail(v) /\ UNCHANGED notAppVars
    \/ \E v \in PasswordLengths : SetPassword(v) /\ UNCHANGED notAppVars
    \/ \E v \in CodeLengths : SetCode(v) /\ UNCHANGED notAppVars
    \/ HandleToggle /\ UNCHANGED notAppVars
    \/ \E s \in Submits : HandleSubmit(s) /\ UNCHANGED notAppVars
    \/ \E s \in Submits, ok \in BOOLEAN : AuthCallSettles(s, ok) /\ UNCHANGED notAppVars

SpecAuth == Init /\ [][NextAuth]_vars

(* ------------------- the queue and the worker in time ------------------ *)

\* variant: a visibility timeout shorter than the worker's timeout
LeaseAtReceiveShort == timeout - TickSeconds

\* the lease a receive starts: the queue's visibility timeout
LeaseAtReceive == visibility_timeout_seconds

\* the execution budget of an invocation: the function's timeout
BudgetAtInvoke == timeout

notTimedVars == <<webVars, appVars>>

\* the event source mapping receives one message (batch_size = 1) and invokes the
\* function with it: the lease and the invocation's budget start together
TimedDeliver(w, i) ==
    /\ Deliver(w, i)
    /\ leaseLeft' = [leaseLeft EXCEPT ![i] = LeaseAtReceive]
    /\ budgetLeft' = [budgetLeft EXCEPT ![w] = BudgetAtInvoke]
    /\ UNCHANGED timedOut

\* the lease ends when its visibility timeout has passed
TimedLeaseExpire(i) ==
    /\ leaseLeft[i] = 0
    /\ LeaseExpire(i)
    /\ UNCHANGED timeVars

\* a step of a running invocation, within its budget
TimedStep(w) ==
    /\ budgetLeft[w] > 0
    /\ FetchOk(w) \/ Infer(w) \/ Persist(w) \/ Notify(w)
    /\ UNCHANGED timeVars

\* the invocation ends by its acknowledgment: a deleted message has no lease any more
TimedAck(w) ==
    /\ budgetLeft[w] > 0
    /\ Ack(w)
    /\ leaseLeft' = IF HandleValid(w) THEN [leaseLeft EXCEPT ![wmsg[w]] = 0] ELSE leaseLeft
    /\ budgetLeft' = [budgetLeft EXCEPT ![w] = 0]
    /\ UNCHANGED timedOut

\* the invocation ends without an acknowledgment: an error it raises, or the execution
\* environment killing it when its timeout has passed
TimedAbort(w) ==
    /\ FetchFail(w) \/ Crash(w)
    /\ budgetLeft' = [budgetLeft EXCEPT ![w] = 0]
    /\ timedOut' = IF budgetLeft[w] = 0 THEN timedOut \cup {wmsg[w]} ELSE timedOut
    /\ UNCHANGED leaseLeft

\* the clocks that are running
RunningClocks ==
    {leaseLeft[i] : i \in {j \in Items : msgState[j] = "leased"}}
        \cup {budgetLeft[w] : w \in {v \in Workers : wpc[v] # "idle"}}

\* time passes, by one tick or by what the first running clock has left
Tick ==
    /\ RunningClocks # {}
    /\ \A c \in RunningClocks : c > 0
    /\ LET d == CHOOSE x \in RunningClocks \cup {TickSeconds} :
                    \A y \in RunningClocks \cup {TickSeconds} : x <= y
       IN /\ leaseLeft' = [i \in Items |->
                              IF msgState[i] = "leased" THEN leaseLeft[i] - d ELSE 0]
          /\ budgetLeft' = [w \in Workers |->
                              IF wpc[w] # "idle" THEN budgetLeft[w] - d ELSE 0]
    /\ UNCHANGED <<serverVars, clientVars, timedOut>>

NextTimed ==
    \/ \E i \in Items : RequestUploadGrant(i) /\ UNCHANGED extVars
    \/ \E i \in Items, b \in {"good", "corrupt"} : ObjectWrite(i, b) /\ UNCHANGED extVars
    \/ \E i \in Items : ObjectCreatedEvent(i) /\ UNCHANGED extVars
    \/ \E i \in Items : DeadLetter(i) /\ UNCHANGED extVars
    \/ \E w \in Workers, i \in Items : TimedDeliver(w, i) /\ UNCHANGED notTimedVars
    \/ \E i \in Items : TimedLeaseExpire(i) /\ UNCHANGED notTimedVars
    \/ \E w \in Workers : TimedStep(w) /\ UNCHANGED notTimedVars
    \/ \E w \in Workers : TimedAck(w) /\ UNCHANGED notTimedVars
    \/ \E w \in Workers : TimedAbort(w) /\ UNCHANGED notTimedVars
    \/ Tick /\ UNCHANGED notTimedVars

SpecTimed == Init /\ [][NextTimed]_vars

(* ------------------------ the poll loop (SpecPoll) --------------------- *)

PollRunning == pollPc \in {"await", "wait"}

\* what is left of the loop: two steps per remaining attempt
PollMeasure ==
    IF pollPc = "await" THEN 2 * (maxAttempts - attempt) + 2
    ELSE IF pollPc = "wait" THEN 2 * (maxAttempts - attempt) + 1
    ELSE 0

C1_Bounds ==
    (pollPc # "idle" /\ maxAttempts >= 1) =>
        /\ requests >= 1
        /\ requests <= maxAttempts
        /\ delays <= maxAttempts - 1
        /\ PollRunning =>
               (attempt \in 1..maxAttempts /\ requests = attempt /\ pollOutcome = "none")
        /\ pollPc = "await" => delays = requests - 1
        /\ pollPc = "wait" => (delays = requests /\ attempt < maxAttempts)
        /\ pollPc = "resolved" => pollOutcome = "result"
        /\ pollPc = "rejected" => pollOutcome \in {"serverError", "timeout", "requestFailed"}
        /\ pollOutcome = "timeout" => (requests = maxAttempts /\ delays = maxAttempts - 1)

PendingBody(resp) ==
    resp.kind = "http" /\ resp.ok /\ resp.status \in {"pending", "processing"}

\* C10 as stated: a pending or processing response leaves HomeScreen in 'processing'
\* (never 'done' or 'error'), and with attempts left the loop goes into its delay
C10_PendingKeepsProcessing ==
    [][(pollPc = "await" /\ PendingBody(lastResp') /\ pollCaller = "HomeScreen") =>
          /\ uploadState' = "processing"
          /\ attempt < maxAttempts => pollPc' = "wait"]_vars

(* --------------------- queue, workers, store (Spec) -------------------- *)

StatusRank(st) ==
    IF st \in {"completed", "error"} THEN 2 ELSE IF st = "processing" THEN 1 ELSE 0

\* C2: no write makes the status read through GetStatus go backward, and a terminal
\* status is never replaced by the other terminal status
C2_StatusMonotonic ==
    [][\A i \in Items :
          LET a == GetStatus(resultStore, i)
              b == GetStatus(resultStore', i)
          IN /\ StatusRank(b.status) >= StatusRank(a.status)
             /\ Terminal(a) => b.status = a.status]_vars

\* C2 witness: two workers with overlapping leases have both written the record
C2_Witness ==
    \E i \in Items : \E w, v \in Holders(i) :
        /\ w # v
        /\ wpc[w] \in {"notifying", "acking"}
        /\ wpc[v] \in {"notifying", "acking"}
        /\ Terminal(GetStatus(resultStore, i))

C3_Order ==
    /\ \A i \in Items : msgState[i] = "acked" =>
           /\ Terminal(GetStatus(resultStore, i))
           /\ GetStatus(resultStore, i).status = "completed" => i \in published
    /\ \A w \in Workers :
           /\ wpc[w] = "notifying" => GetStatus(resultStore, wmsg[w]).status = "completed"
           /\ wpc[w] = "acking" =>
                  /\ Terminal(GetStatus(resultStore, wmsg[w]))
                  /\ GetStatus(resultStore, wmsg[w]).status = "completed" =>
                         wmsg[w] \in published

\* C3: a message is acknowledged only after the terminal record of its item is
\* written, and on the success path the order is write, publish, acknowledge
C3_AckAfterTerminalWrite ==
    /\ []C3_Order
    /\ [][\A i \in Items : (msgState'[i] = "acked" /\ msgState[i] # "acked") =>
              /\ Terminal(GetStatus(resultStore, i))
              /\ \E w \in Holders(i) : wpc[w] = "acking"]_vars

\* C3 witness: a success path ran to its acknowledgment
C3_Witness ==
    \E i \in Items :
        /\ msgState[i] = "acked"
        /\ GetStatus(resultStore, i).status = "completed"
        /\ i \in published

CompletedRecords == [status : {"completed"}, payload : Items, error_detail : {""}]

\* C4: PutResult replaces the whole record under the item's key and nothing else, so
\* writing a completed record r twice reads back exactly r, as after one write; and
\* whatever the interleaving of the workers' writes, a completed record read through
\* GetStatus is the record one write leaves
C4_IdempotentOverwrite ==
    /\ \A i \in Items : \A r \in CompletedRecords :
           LET once == PutResult(resultStore, i, r)
               twice == PutResult(once, i, r)
           IN /\ GetStatus(once, i) = r
              /\ GetStatus(twice, i) = r
              /\ twice = once
              /\ \A j \in Items \ {i} : GetStatus(once, j) = GetStatus(resultStore, j)
    /\ \A i \in Items : GetStatus(resultStore, i).status = "completed" =>
           GetStatus(resultStore, i) = Classify(i, "good")

\* C4 witness: a second delivery has written the record an earlier one wrote and published
C4_Witness ==
    \E i \in Items : \E w \in Holders(i) :
        /\ wpc[w] = "notifying"
        /\ wtoken[w] >= 2
        /\ i \in published
        /\ GetStatus(resultStore, i) = Classify(i, "good")

C5_Counts ==
    \A i \in Items :
        /\ msgState[i] = "leased" => receiveCount[i] = expiries[i] + 1
        /\ msgState[i] = "visible" => receiveCount[i] = expiries[i]
        /\ msgState[i] = "acked" => receiveCount[i] \in {expiries[i], expiries[i] + 1}
        /\ msgState[i] = "dead" =>
               (expiries[i] = maxReceiveCount /\ Deliveries(i) = maxReceiveCount)
        /\ Deliveries(i) <= expiries[i] + 1

C5_Steps ==
    \A i \in Items :
        /\ msgState[i] = "acked" =>
               /\ msgState'[i] = "acked"
               /\ receiveCount'[i] = receiveCount[i]
               /\ \A w \in Workers : wmsg'[w] = i => wmsg[w] = i
        /\ (msgState[i] = "leased" /\ msgState'[i] = "visible") =>
               receiveCount'[i] = receiveCount[i]
        /\ (msgState'[i] = "leased" /\ msgState[i] # "leased") =>
               /\ msgState[i] = "visible"
               /\ receiveCount'[i] = receiveCount[i] + 1
               /\ receiveCount'[i] <= maxReceiveCount

\* C5 (as amended): a lease that expires unacknowledged makes the message receivable
\* again with its count unchanged; the message is then delivered at most once for
\* that cycle, each delivery raising delivery_count by exactly one, and it is not
\* delivered when it is acknowledged first or has been delivered maxReceiveCount
\* times already (it is dead-lettered then); an acknowledged message is never
\* delivered again
C5_RedeliveryPerCycle == []C5_Counts /\ [][C5_Steps]_vars

\* C5 witness: two leases expired unacknowledged and the message is out for the third time
C5_Witness ==
    \E i \in Items :
        /\ msgState[i] = "leased"
        /\ expiries[i] = 2
        /\ receiveCount[i] = 3

\* C5 as stated: every unacknowledged cycle of a message that was not acknowledged
\* is followed by one redelivery
C5_EveryCycleRedelivered ==
    \A i \in Items :
        msgState[i] \in {"leased", "dead"} => Deliveries(i) = expiries[i] + 1

C6_Dead ==
    \A i \in Items :
        /\ receiveCount[i] > maxReceiveCount => msgState[i] = "dead"
        /\ msgState[i] = "dead" => \A w \in Holders(i) : wtoken[w] <= maxReceiveCount

\* C6: a message whose delivery_count exceeds maxReceiveCount = 3 is in the
\* dead-letter queue, and from then on it is never delivered to a worker again
C6_DeadLetterThreshold ==
    /\ []C6_Dead
    /\ [][\A i \in Items : msgState[i] = "dead" =>
              /\ msgState'[i] = "dead"
              /\ receiveCount'[i] = receiveCount[i]
              /\ \A w \in Workers : wmsg'[w] = i => wmsg[w] = i]_vars

\* C6 witness: three deliveries went unacknowledged and the fourth receive dead-lettered
C6_Witness ==
    \E i \in Items :
        /\ msgState[i] = "dead"
        /\ receiveCount[i] = maxReceiveCount + 1
        /\ expiries[i] = maxReceiveCount

C7_Retry ==
    \A i \in Items :
        (msgState[i] = "acked" /\ abandoned[i] = 1 /\ expiries[i] = 1
         /\ object[i] = "good") =>
            /\ receiveCount[i] = 2
            /\ GetStatus(resultStore, i) =
                   [status |-> "completed", payload |-> i, error_detail |-> ""]

\* C7: a worker dying before its acknowledgment leaves the message, its count and the
\* store as they are; the message is delivered again only after its lease expired; and
\* after one such death and one successful retry GetStatus is the completed record of
\* a crash-free run and delivery_count is 2
C7_CrashThenRetry ==
    /\ []C7_Retry
    /\ [][/\ \A w \in Workers :
                (wpc[w] # "idle" /\ wpc'[w] = "idle" /\ abandoned' # abandoned) =>
                    /\ msgState' = msgState
                    /\ receiveCount' = receiveCount
                    /\ resultStore' = resultStore
          /\ \A i \in Items :
                (msgState'[i] = "leased" /\ receiveCount'[i] > 1
                 /\ receiveCount'[i] # receiveCount[i]) =>
                    (msgState[i] = "visible" /\ expiries[i] >= 1)]_vars

\* C7 witness: one worker died, the lease expired, the second delivery was acknowledged
C7_Witness ==
    \E i \in Items :
        /\ msgState[i] = "acked"
        /\ abandoned[i] = 1
        /\ expiries[i] = 1
        /\ receiveCount[i] = 2
        /\ GetStatus(resultStore, i).status = "completed"

C8_ErrorRecord ==
    \A i \in Items : object[i] = "corrupt" =>
        LET rec == GetStatus(resultStore, i)
        IN /\ rec # NotFound => (rec.status = "error" /\ rec.error_detail # "")
           /\ msgState[i] = "acked" => rec.status = "error"
           /\ \A w \in Holders(i) : wpc[w] = "acking" => rec.status = "error"

\* C8: an inference failure leaves an error record with a non-empty error_detail
\* before the acknowledgment; the acknowledgment removes the message, which is never
\* delivered again, and GetStatus goes on returning error
C8_InferenceFailure ==
    /\ []C8_ErrorRecord
    /\ [][/\ \A w \in Workers :
                (wpc[w] = "acking" /\ wpc'[w] = "idle" /\ abandoned' = abandoned
                 /\ HandleValid(w)) => msgState'[wmsg[w]] = "acked"
          /\ \A i \in Items : (msgState[i] = "acked" /\ object[i] = "corrupt") =>
                /\ msgState'[i] = "acked"
                /\ \A w \in Workers : wmsg'[w] = i => wmsg[w] = i
                /\ GetStatus(resultStore', i).status = "error"]_vars

\* C8 witness: a corrupt upload was recorded as an error and acknowledged
C8_Witness ==
    \E i \in Items :
        /\ object[i] = "corrupt"
        /\ msgState[i] = "acked"
        /\ GetStatus(resultStore, i).status = "error"
        /\ GetStatus(resultStore, i).error_detail # ""

C9_NoRecord ==
    \A i \in Items :
        /\ i \notin fetched =>
               (GetStatus(resultStore, i) = NotFound /\ msgState[i] # "acked")
        /\ Deliveries(i) <= maxReceiveCount

\* C9: a fetch failure writes no record and acknowledges nothing: the store and the
\* queue are unchanged, GetStatus stays NotFound while no fetch has succeeded, and
\* the message is delivered again after its lease expires, maxReceiveCount deliveries
\* at most
C9_FetchFailure ==
    /\ []C9_NoRecord
    /\ [][\A w \in Workers : (wpc[w] = "fetching" /\ wpc'[w] = "idle") =>
              /\ resultStore' = resultStore
              /\ msgState' = msgState
              /\ receiveCount' = receiveCount]_vars

\* C9 witness: two fetches failed and the message is out for the third time, no record yet
C9_Witness ==
    \E i \in Items :
        /\ i \notin fetched
        /\ abandoned[i] = 2
        /\ msgState[i] = "leased"
        /\ receiveCount[i] = maxReceiveCount
        /\ GetStatus(resultStore, i) = NotFound

(* ------------------- terminal poll responses (SpecPoll) ---------------- *)

\* a 200 response with the given status in its body
OkBody(resp, st) == resp.kind = "http" /\ resp.ok /\ resp.status = st

\* the requests counter moves after a settled call only because a new call started
NewCallOnly == requests' # requests => (pollPc' = "await" /\ requests' = 1 /\ hpc = "upload")

C11_Resolved ==
    pollPc = "resolved" =>
        /\ pollOutcome = "result"
        /\ OkBody(lastResp, "completed")
        /\ pollValue # NoResult
        /\ pollValue = lastResp.result

C12_Rejected ==
    (pollPc = "rejected" /\ pollOutcome = "serverError") =>
        /\ OkBody(lastResp, "error")
        /\ lastResp.error # "undefined" => pollValue = lastResp.error
        /\ lastResp.error = "undefined" => pollValue = DefaultServerErrorMsg

\* C12: a response with status error rejects pollResults on the same attempt; HomeScreen
\* goes to 'error' and its message is the error text the server sent (the default text
\* when the response carries none); no request of that call follows
C12_ErrorRejects ==
    /\ []C12_Rejected
    /\ [][/\ (pollPc = "await" /\ OkBody(lastResp', "error")) =>
                 /\ pollPc' = "rejected" /\ pollOutcome' = "serverError"
                 /\ lastResp'.error # "undefined" => pollValue' = lastResp'.error
                 /\ requests' = requests /\ attempt' = attempt
                 /\ pollCaller = "HomeScreen" =>
                        (uploadState' = "error" /\ errorMessage' = pollValue' /\ hpc' = "none")
          /\ (pollPc = "rejected" /\ pollOutcome = "serverError") => NewCallOnly]_vars

\* C12 witness: HomeScreen shows the error_detail of the error response to its third poll
C12_Witness ==
    /\ pollCaller = "HomeScreen"
    /\ pollOutcome = "serverError"
    /\ uploadState = "error"
    /\ requests = 3
    /\ lastResp.error = "error_detail"
    /\ errorMessage = "error_detail"

(* ----------------------- HomeScreen states (SpecPoll) ------------------ *)

\* the uploadState HomeScreen is left in by a server-reported error
StateAfterServerError == "error"

\* C13 as stated: when the attempts are used up HomeScreen ends in a state other
\* than the one a server-reported error leaves it in
C13_TimeoutDistinct ==
    [][(pollCaller = "HomeScreen" /\ PollRunning /\ pollOutcome' = "timeout") =>
          uploadState' # StateAfterServerError]_vars

\* the transitions of uploadState the handlers make
UploadStateSteps ==
    {<<"idle", "uploading">>, <<"uploading", "processing">>, <<"uploading", "error">>,
     <<"processing", "done">>, <<"processing", "error">>,
     <<"done", "uploading">>, <<"error", "uploading">>,
     <<"done", "idle">>, <<"error", "idle">>}

\* the transitions made when a picker result arrives while handleIdentify is running
\* (resetState), and handleIdentify's next transition after it
UploadStateStepsAfterReset ==
    {<<"uploading", "idle">>, <<"processing", "idle">>,
     <<"idle", "processing">>, <<"idle", "done">>, <<"idle", "error">>}

CompletedWithPayload(i) ==
    /\ GetStatus(resultStore, i).status = "completed"
    /\ GetStatus(resultStore, i).payload # NoPayload

\* the pipeline half of C15: once the object-write event of a decodable upload has
\* put its message on the queue, the record becomes completed with a payload unless
\* some delivery of the message is abandoned (fetch failure or crash)
C15_RecordCompletes ==
    \A i \in Items :
        (object[i] = "good" /\ msgState[i] # "none") ~>
            (abandoned[i] > 0 \/ CompletedWithPayload(i))

\* C15 as stated: with the grant issued, the event delivered and no delivery failing,
\* GetStatus eventually returns completed with a payload, and a client still polling
\* that item then reaches 'done'
C15_CompletedAndDone ==
    \A i \in Items :
        /\ (object[i] = "good" /\ msgState[i] # "none") ~>
               (abandoned[i] > 0 \/ CompletedWithPayload(i))
        /\ (CompletedWithPayload(i) /\ imageId = i /\ PollRunning
            /\ pollCaller = "HomeScreen") ~> (uploadState = "done")

C16_NoRecord ==
    \A i \in Items :
        (msgState[i] = "none" \/ i \notin fetched) => GetStatus(resultStore, i) = NotFound

C16_Steps ==
    /\ \A i \in Items :
           /\ object[i] = "none" => GetStatus(resultStore', i) = NotFound
           /\ (msgState[i] = "dead" /\ Holders(i) = {}
               /\ GetStatus(resultStore, i) = NotFound) =>
                  GetStatus(resultStore', i) = NotFound
    /\ (PollRunning /\ imageId \in Items /\ pollPc' \in {"resolved", "rejected"}
        /\ GetStatus(resultStore, imageId) = NotFound) =>
           (pollOutcome' = "timeout" /\ requests = maxAttempts /\ pollPc' = "rejected")

LeaseHolders(i) ==
    {w \in Holders(i) : msgState[i] = "leased" /\ wtoken[w] = receiveCount[i]}

C17_Leases ==
    \A i \in Items :
        /\ Cardinality(LeaseHolders(i)) <= 1
        /\ \A w, v \in Holders(i) : w # v =>
               /\ wtoken[w] # wtoken[v]
               /\ expiries[i] >= 1
               /\ (wtoken[w] < wtoken[v]) => expiries[i] >= wtoken[w]
        /\ Terminal(GetStatus(resultStore, i)) =>
               GetStatus(resultStore, i) = Classify(i, object[i])

\* C17: at most one worker holds an unexpired lease on a message; two workers are on
\* the same message only after the earlier one's lease expired; and whatever the
\* order of their writes the record is the one a single worker writes
C17_OneLeaseHolder ==
    /\ []C17_Leases
    /\ [][\A i \in Items : \A w \in Workers :
              (wmsg'[w] = i /\ wmsg[w] # i /\ Holders(i) # {}) =>
                  (msgState[i] = "visible" /\ expiries[i] >= 1)]_vars

\* C17 witness: a lease expired under a slow worker and both workers are about to write
C17_Witness ==
    \E i \in Items :
        /\ Cardinality(Holders(i)) = 2
        /\ \A w \in Holders(i) : wpc[w] = "persisting"
        /\ Cardinality(LeaseHolders(i)) = 1
        /\ expiries[i] = 1

(* ----------------------- frames (SpecPipeline) ------------------------- *)

\* C18: a status request changes neither the store, nor the queue, nor a worker; its
\* answer is a function of the record under the key alone, and the store changes
\* only when a worker in its Persisting step writes: two requests with no write
\* between them get the same answer
C18_GetStatusReadOnly ==
    [][/\ (pollPc = "await" /\ lastResp' # NoResponse) =>
              /\ serverVars' = serverVars
              /\ lastResp' = StatusEndpoint(GetStatus(resultStore', imageId))
       /\ resultStore' # resultStore =>
              \E w \in Workers : wpc[w] = "persisting" /\ wpc'[w] # "persisting"]_vars

\* C18 witness: the client's third request is answered while a worker is between its
\* write and its acknowledgment
C18_Witness ==
    /\ imageId \in Items
    /\ requests = 3
    /\ pollPc = "wait"
    /\ lastResp.status = "ready"
    /\ \E w \in Holders(imageId) : wpc[w] = "acking"

(* ----------------------------- grants (Spec) --------------------------- *)

C19_Fresh ==
    \A i \in Items :
        /\ i \notin granted => (object[i] = "none" /\ msgState[i] = "none")
        /\ object[i] = "none" => msgState[i] = "none"
        /\ (msgState[i] = "none" \/ i \notin fetched) =>
               GetStatus(resultStore, i) = NotFound

\* C19: a grant adds one id that no earlier grant returned and changes nothing else:
\* not the bucket, not the queue, not a worker, not the store; a granted item has no
\* queue message before its object-write event and no record before a worker has
\* fetched its object
C19_GrantCreatesNoState ==
    /\ []C19_Fresh
    /\ [][granted' # granted =>
              /\ \E i \in Items : i \notin granted /\ granted' = granted \cup {i}
              /\ UNCHANGED <<object, msgState, receiveCount, wpc, wmsg, wtoken,
                             resultStore, published, expiries, abandoned, fetched>>]_vars

\* C19 witness: two grants were issued; the second item has no object, no message and
\* no record while the first already has its record
C19_Witness ==
    /\ granted = {1, 2}
    /\ object[2] = "none"
    /\ msgState[2] = "none"
    /\ GetStatus(resultStore, 2) = NotFound
    /\ Terminal(GetStatus(resultStore, 1))

(* --------------------- failed grant or upload (SpecPoll) --------------- *)

\* the catch block of handleIdentify runs for a failed getUploadUrl or uploadToS3
C20_Failed == hpc \in {"grant", "upload"} /\ hpc' = "none"

\* what holds of a failed grant or upload whatever uploadState was: error state, the
\* call's message, no status request, and nothing resumed afterwards
C20_FatalSteps ==
    /\ C20_Failed =>
           /\ uploadState' = "error"
           /\ errorMessage' = (IF hpc = "grant" THEN GrantFailedMsg ELSE UploadFailedMsg)
           /\ requests' = requests /\ pollPc' = pollPc
    /\ hpc = "none" => hpc' \in {"none", "grant"}
    /\ hpc' = "upload" => hpc \in {"grant", "upload"}
    /\ (hpc' = "poll" /\ hpc # "poll") => hpc = "upload"
    /\ (requests' # requests /\ pollCaller' = "HomeScreen") => hpc \in {"upload", "poll"}

\* C20 as stated: when getUploadUrl or uploadToS3 fails, HomeScreen goes from uploading
\* straight to error, nothing is uploaded after a failed grant and no status request is
\* sent for that attempt
C20_FailedGrantIsFatal ==
    [][/\ C20_FatalSteps
       /\ C20_Failed => uploadState = "uploading"]_vars

\* the part of C20 that holds: the failure is fatal to the attempt whatever uploadState
\* the picker has left
C20_FailureEndsAttempt == [][C20_FatalSteps]_vars

(* ------------------ abandoned poll loops (SpecAbandon) ----------------- *)

C21_ServerSteps ==
    \* a step of the poll loop touches nothing on the server
    /\ ((pollPc' # pollPc \/ attempt' # attempt) /\ hpc # "upload") =>
           serverVars' = serverVars
    \* a record is never removed and a terminal record stays terminal
    /\ \A i \in Items :
           /\ GetStatus(resultStore, i) # NotFound =>
                  GetStatus(resultStore', i) # NotFound
           /\ Terminal(GetStatus(resultStore, i)) =>
                  Terminal(GetStatus(resultStore', i))

\* C21: with nothing forcing the client to go on polling, a poll-loop step changes
\* nothing on the server, every queued work item still gets its terminal record unless
\* its message ends in the dead-letter queue, and a record once written is never
\* removed
C21_AbandonHasNoEffect ==
    /\ [][C21_ServerSteps]_vars
    /\ \A i \in Items :
           (msgState[i] # "none") ~>
               (Terminal(GetStatus(resultStore, i)) \/ msgState[i] = "dead")

\* C21 witness: the client gave up after its last attempt was answered pending, and
\* the item's record was completed and its message acknowledged afterwards
C21_Witness ==
    /\ pollOutcome = "timeout"
    /\ pollPc = "rejected"
    /\ imageId \in Items
    /\ lastResp = StatusEndpoint(NotFound)
    /\ CompletedWithPayload(imageId)
    /\ msgState[imageId] = "acked"

(* ------------------------ the web client (SpecWeb) --------------------- *)

\* a suspended timer callback of pollForResults gets its response
CallbackStep == inflight' < inflight

\* C22 as stated: a poll response whose status is error ends the web client's polling
\* at once: the timer is cleared, the promise rejected and the error section shown
C22_ErrorEndsPolling ==
    [][(CallbackStep /\ handled' = "error" /\ pollPromise = "pending") =>
           (pollTimer' = "null" /\ pollPromise' = "rejected" /\ visibleSection' = "error")]_vars

\* authFetch lets a request out
C23_RequestStep ==
    \/ spc # "grant" /\ spc' = "grant"
    \/ inflight' > inflight

\* authFetch gets a 401 back
C23_UnauthorizedStep ==
    /\ handled' = "401"
    /\ CallbackStep \/ (spc = "grant" /\ spc' # "grant")

C23_Steps ==
    \* a request goes out only with the token of a valid session
    /\ C23_RequestStep => (authorization' = "jwt" /\ idToken' = "jwt"
                           /\ cognitoUser = "signedIn")
    \* startIdentification without a token: signed out, thrown, no request
    /\ (visibleSection = "upload" /\ visibleSection' = "error"
        /\ spc \notin {"grant", "upload"} /\ inflight' = inflight /\ attempts' = attempts) =>
           /\ cognitoUser' = "null" /\ idToken' = "null" /\ authSection' = "shown"
           /\ spc' = "none" /\ authorization' = authorization
    \* a timer tick without a token: signed out, thrown, no request
    /\ (attempts' = attempts + 1 /\ inflight' = inflight) =>
           /\ cognitoUser' = "null" /\ idToken' = "null" /\ authSection' = "shown"
           /\ pollTimer' = "null" /\ statusRequests' = statusRequests
           /\ authorization' = authorization
    \* a 401: signed out and thrown
    /\ C23_UnauthorizedStep =>
           /\ cognitoUser' = "null" /\ idToken' = "null" /\ authSection' = "shown"
           /\ spc' # "upload" /\ pollTimer' = "null" /\ displayCalls' = displayCalls

\* C23: no API request leaves authFetch without a token (with no token it signs out and
\* throws, no request made), and after a 401 cognitoUser and idToken are both null and
\* the caller gets the exception
C23_NoRequestWithoutToken ==
    /\ [](authorization # "null")
    /\ [][C23_Steps]_vars

\* C23 witness: a status request went out with the token, the answer was 401, and the
\* user is signed out
C23_Witness ==
    /\ authorization = "jwt"
    /\ handled = "401"
    /\ statusRequests > 0
    /\ cognitoUser = "null"
    /\ idToken = "null"

\* C27 as stated: one pollForResults sends at most POLL_MAX_ATTEMPTS status requests,
\* also while several timer callbacks wait for their responses
C27_AtMostMaxRequests == statusRequests <= POLL_MAX_ATTEMPTS

\* C28 as stated: while cognitoUser and idToken are null, the upload, status, results
\* and error sections are all hidden
C28_SignedOutHidesSections ==
    (cognitoUser = "null" /\ idToken = "null") => visibleSection = "none"

\* C29 as stated: one pollForResults calls displayResults at most once, and once its
\* promise has settled no callback still suspended changes the visible section
C29_ResultShownOnce ==
    /\ [](displayCalls <= 1)
    /\ [][(CallbackStep /\ pollPromise \in {"resolved", "rejected"}) =>
              visibleSection' = visibleSection]_vars

(* ------------------- one pipeline at a time (SpecPoll) ------------------ *)

\* C30 as stated: while handleIdentify is running uploadState is uploading or
\* processing, so its button is not rendered and the picker buttons are disabled, and
\* no picker result sets uploadState back to idle before handleIdentify has ended
C30_SinglePipeline ==
    /\ [](hpc # "none" => IsLoading)
    /\ [][(hpc # "none" /\ uploadState # "idle") => uploadState' # "idle"]_vars

(* ----------------- mobile authentication gate (SpecAuth) --------------- *)

\* an invocation of handleSubmit makes its first auth call in this step
C24_FirstCallStep(s) == submits[s].pc = "none" /\ submits'[s].pc # "none"

\* a handleSubmit invocation returns in this step from a failed validation
C24_ValidationFailedStep ==
    /\ error' \in {EmailMsg, PasswordMsg, CodeMsg}
    /\ \A s \in Submits : submits'[s].pc = submits[s].pc

\* the auth call of invocation s fails in this step
C24_AuthFailedStep(s) == ~submits[s].failed /\ submits'[s].failed

C24_Steps ==
    /\ (mode' = "confirm" /\ mode # "confirm")
          => \E s \in Submits : submits[s].pc = "signUp" /\ "signUp" \in submits'[s].ok
    /\ C24_ValidationFailedStep
          => /\ mode' = mode
             /\ authState' = authState
             /\ \A s \in Submits : submits'[s].called => submits[s].called
    /\ \A s \in Submits :
          /\ C24_FirstCallStep(s)
                => /\ Trim(email) = "filled"
                   /\ mode # "confirm" => password >= MinPasswordLength
                   /\ mode = "confirm" => code = CodeLength
          /\ C24_AuthFailedStep(s)
                => /\ mode' = mode
                   /\ authState' = authState
                   /\ ~submits'[s].called
                   /\ submits'[s].pc = "none"

\* C24: AuthScreen calls onAuthSuccess only after a signIn call succeeded (in confirm
\* mode only after confirmSignUp and then signIn both succeeded); mode becomes 'confirm'
\* only after a successful signUp; a failed validation makes no auth call; a failed
\* validation or failed auth call never calls onAuthSuccess and leaves mode unchanged.
C24_AuthSuccessOnlyAfterSignIn ==
    /\ [](\A s \in Submits :
            /\ submits[s].called
                  => /\ "signIn" \in submits[s].ok
                     /\ ~submits[s].failed
                     /\ submits[s].ok \in {{"signIn"}, {"confirmSignUp", "signIn"}}
            /\ submits[s].pc = "confirmSignIn" => "confirmSignUp" \in submits[s].ok)
    /\ [][C24_Steps]_vars

\* an invocation in confirm mode called onAuthSuccess after confirmSignUp and signIn,
\* and another invocation failed
C24_Witness ==
    \E s, t \in Submits :
        /\ submits[s].called
        /\ submits[s].ok = {"confirmSignUp", "signIn"}
        /\ submits[t].failed
        /\ authState = "authenticated"

C25_Steps ==
    /\ authState # "loading" => authState' # "loading"
    /\ booted' # booted
          <=> (authState = "loading" /\ authState' # "loading")
    /\ booted' # booted
          => authState' = (IF booted' = "user" THEN "authenticated" ELSE "unauthenticated")
    /\ (authState = "unauthenticated" /\ authState' = "authenticated")
          => \E s \in Submits : ~submits[s].called /\ submits'[s].called

\* C25: authState starts as 'loading', leaves it exactly once, when getCurrentUser
\* settles ('authenticated' if a user was returned, else 'unauthenticated'), never
\* returns to 'loading', and goes from 'unauthenticated' to 'authenticated' only
\* through onAuthSuccess.
C25_AuthStateMachine ==
    /\ authState = "loading"
    /\ [](authState = "loading" <=> booted = "pending")
    /\ [][C25_Steps]_vars

\* no stored user, and then a sign-in through AuthScreen
C25_Witness ==
    /\ booted = "null"
    /\ authState = "authenticated"
    /\ \E s \in Submits : submits[s].called

(* ------------------ worker timeout and lease (SpecTimed) --------------- *)

\* worker w is processing a message
C26_Busy(w) == wpc[w] # "idle"

C26_Steps ==
    \A i \in Items :
        (\/ expiries'[i] # expiries[i]
         \/ receiveCount'[i] # receiveCount[i])
            => \A w \in Workers : ~(C26_Busy(w) /\ wmsg[w] = i)

====
